---- MODULE Spec2Model ----
(***************************************************************************)
(* The dimensional ELT pipeline of the education data warehouse: the SCD   *)
(* Type 2 student and teacher dimensions and the incremental, monthly      *)
(* partitioned fact tables, modelled from the dbt SQL models.              *)
(*                                                                         *)
(* Time is an integer number of seconds on a calendar of 30-day months and *)
(* 12-month years.  SQL NULL is the value NULL for strings and NULL_TS for *)
(* timestamps; neither is a value any input carries.                       *)
(***************************************************************************)
EXTENDS Integers, Sequences, FiniteSets, Bags, TLC

VARIABLES
    raw_students,   \* source('raw','students'): sequence of rows, in landing order
    dim_students,   \* the dim_students table as last built
    dim_students_input, \* the raw rows the last dim_students build read
    stg_teachers,   \* stg_teachers: set of staged teacher rows
    dim_teachers,   \* the dim_teachers table
    dim_teachers_exists, \* whether dim_teachers is materialised (is_incremental())
    dim_teachers_input,  \* the staged rows present at the last dim_teachers run
    stg_events,     \* the staged transactional rows of the fact model being loaded
    fct,            \* the fact table: the rows of all its monthly partitions
    fct_exists,     \* whether the fact table is materialised (is_incremental())
    fct_model,      \* the fact model: "assessment", "attendance" or "enrollment"
    fct_input,      \* the staged rows present at the last fact load
    student_metrics,      \* the rows of the student_metrics CTE of equity_metrics
    equity_metrics,       \* the equity_metrics table as last built
    equity_metrics_input, \* the student_metrics rows the last build read
    dbt_run,              \* the dbt run of the load window: each model's progress
    stg_assessment_results, \* the marks of the staged assessment results
    enriched_results,     \* the measures fct_assessment_results derives from them
    exam_rows,            \* the assessment results equity_metrics reads from the fact
    now             \* CURRENT_TIMESTAMP()

vars == <<raw_students, dim_students, dim_students_input, stg_teachers, dim_teachers,
          dim_teachers_exists, dim_teachers_input, stg_events, fct, fct_exists,
          fct_model, fct_input, student_metrics, equity_metrics,
          equity_metrics_input, dbt_run, stg_assessment_results, enriched_results,
          exam_rows, now>>

studentVars == <<raw_students, dim_students, dim_students_input>>
teacherVars == <<stg_teachers, dim_teachers, dim_teachers_exists, dim_teachers_input>>
factVars == <<stg_events, fct, fct_exists, fct_model, fct_input>>
martVars == <<student_metrics, equity_metrics, equity_metrics_input, exam_rows>>

\* the models of the project that the runs of the load windows build
DbtModels ==
    {"dim_students", "dim_teachers", "dim_schools", "fct_assessment_results",
     "fct_attendances", "fct_enrollments", "equity_metrics"}

\* the first load window, no model started
InitRunIdle ==
    dbt_run = [window |-> 1,
               status |-> [m \in DbtModels |-> "pending"],
               version |-> [m \in DbtModels |-> 0],
               read |-> [m \in DbtModels |-> [r \in DbtModels |-> 0]]]

gradeVars == <<stg_assessment_results, enriched_results>>

InitGradesIdle ==
    /\ stg_assessment_results = {}
    /\ enriched_results = {}

InitMartIdle ==
    /\ student_metrics = {}
    /\ equity_metrics = {}
    /\ equity_metrics_input = {}
    /\ exam_rows = {}

----------------------------------------------------------------------------
(* Bounds *)

MaxRaw == 3        \* raw student rows landed
MaxUuid == 2       \* distinct outcomes of GENERATE_UUID() per row
MaxStaged == 3     \* staged teacher rows landed
MaxDimRows == 5    \* rows the dim_teachers table may grow to
MaxEvents == 3     \* staged transactional rows landed
MaxCells == 3      \* rows of student_metrics

----------------------------------------------------------------------------
(* SQL values and the calendar *)

NULL == "<NULL>"
NULL_TS == -1

\* TIMESTAMP('9999-12-31 23:59:59'), later than every instant of the model
Sentinel == 2000000000

Day == 24 * 3600
Month == 30 * Day
Year == 12 * Month

\* the instant y years, m months, d days and s seconds after the epoch
TS(y, m, d, s) == y * Year + m * Month + d * Day + s

DateTrunc(t, unit) == t - (t % unit)

Coalesce(x, d) == IF x = NULL THEN d ELSE x

LowerChar(c) ==
    CASE c = "A" -> "a" [] c = "B" -> "b" [] c = "C" -> "c" [] c = "D" -> "d"
      [] c = "E" -> "e" [] c = "F" -> "f" [] c = "G" -> "g" [] c = "H" -> "h"
      [] c = "I" -> "i" [] c = "J" -> "j" [] c = "K" -> "k" [] c = "L" -> "l"
      [] c = "M" -> "m" [] c = "N" -> "n" [] c = "O" -> "o" [] c = "P" -> "p"
      [] c = "Q" -> "q" [] c = "R" -> "r" [] c = "S" -> "s" [] c = "T" -> "t"
      [] c = "U" -> "u" [] c = "V" -> "v" [] c = "W" -> "w" [] c = "X" -> "x"
      [] c = "Y" -> "y" [] c = "Z" -> "z" [] OTHER -> c

RECURSIVE Lower(_)
Lower(s) ==
    IF s = NULL THEN NULL
    ELSE IF Len(s) = 0 THEN ""
    ELSE LowerChar(SubSeq(s, 1, 1)) \o Lower(SubSeq(s, 2, Len(s)))

\* s LIKE '%pat%'; NULL (not true) when s is NULL
Like(s, pat) ==
    /\ s # NULL
    /\ \E i \in 1..(Len(s) - Len(pat) + 1) : SubSeq(s, i, i + Len(pat) - 1) = pat

\* the permutations of 1..n, each a sequence
Perms(n) == {p \in [1..n -> 1..n] : \A a, b \in 1..n : p[a] = p[b] => a = b}

----------------------------------------------------------------------------
(* dim_students *)

AttrsA ==
    [full_name |-> "Ayesha Khan", gender |-> "F", date_of_birth |-> "2010-01-01",
     division |-> "Dhaka", district |-> "A", upazila |-> "Savar",
     socioeconomic_status |-> "low", disability_status |-> NULL,
     guardian_contact |-> "017"]

\* the student moved from district A to district B
AttrsB == [AttrsA EXCEPT !.district = "B", !.socioeconomic_status = "middle"]

\* the district text was keyed into the division field
AttrsShift == [AttrsA EXCEPT !.division = "DhakaA", !.district = ""]

T1 == TS(1, 0, 0, 0)
T2 == TS(1, 5, 0, 0)
T3 == TS(1, 8, 0, 0)

RawStudent(id, a, t) ==
    [student_id |-> id, full_name |-> a.full_name, gender |-> a.gender,
     date_of_birth |-> a.date_of_birth, division |-> a.division,
     district |-> a.district, upazila |-> a.upazila,
     socioeconomic_status |-> a.socioeconomic_status,
     disability_status |-> a.disability_status,
     guardian_contact |-> a.guardian_contact, created_at |-> t]

\* the raw rows the feed can deliver
RawStudentRows ==
    {RawStudent("s1", a, t) : a \in {AttrsA, AttrsB, AttrsShift}, t \in {T1, T2, T3}}
      \cup {RawStudent("s2", AttrsA, T1), RawStudent(NULL, AttrsA, T1)}

TrackedAttrs(r) ==
    <<r.full_name, r.gender, r.date_of_birth, r.division, r.district, r.upazila,
      r.socioeconomic_status, r.disability_status, r.guardian_contact>>

\* the text handed to MD5; MD5 itself is taken to be injective
RowHash(r) ==
    Coalesce(r.student_id, "") \o Coalesce(r.full_name, "") \o Coalesce(r.gender, "")
      \o Coalesce(r.date_of_birth, "") \o Coalesce(r.division, "")
      \o Coalesce(r.district, "") \o Coalesce(r.upazila, "")
      \o Coalesce(r.socioeconomic_status, "") \o Coalesce(r.disability_status, "")
      \o Coalesce(r.guardian_contact, "")

\* the first row landed with the student_id and created_at of row i
GroupFirst(raw, i) ==
    CHOOSE j \in 1..i :
        /\ raw[j].student_id = raw[i].student_id
        /\ raw[j].created_at = raw[i].created_at
        /\ \A k \in 1..(j - 1) :
              raw[k].student_id # raw[i].student_id \/ raw[k].created_at # raw[i].created_at

\* the orders in which a window ordered by created_at may present the rows,
\* each given as the rank it assigns to every row: the rows of one student with
\* equal created_at come in any order (rows of different students never meet
\* in a window, so their mutual order is fixed here by first landing)
WindowOrders(raw) ==
    LET first == [i \in 1..Len(raw) |-> GroupFirst(raw, i)]
    IN  {rank \in Perms(Len(raw)) :
            \A i, j \in 1..Len(raw) :
                /\ raw[i].created_at < raw[j].created_at => rank[i] < rank[j]
                /\ (raw[i].created_at = raw[j].created_at /\ first[i] < first[j])
                      => rank[i] < rank[j]}

\* the student_updates CTE; lagOrd ranks the rows in the LAG/LEAD window and
\* rnOrd in the ROW_NUMBER window
StudentUpdates(raw, lagOrd, rnOrd) ==
    LET valid == {i \in 1..Len(raw) : raw[i].student_id # NULL}
        IsPrev(j, i) ==
            /\ raw[j].student_id = raw[i].student_id
            /\ lagOrd[j] < lagOrd[i]
            /\ \A k \in valid :
                  (raw[k].student_id = raw[i].student_id /\ lagOrd[k] < lagOrd[i])
                     => lagOrd[k] <= lagOrd[j]
    IN  {[row |-> raw[i],
          row_hash |-> RowHash(raw[i]),
          previous_row_hash |->
              IF \E j \in valid : IsPrev(j, i)
              THEN RowHash(raw[CHOOSE j \in valid : IsPrev(j, i)]) ELSE NULL,
          next_created_at |->
              IF \E j \in valid : IsPrev(i, j)
              THEN raw[CHOOSE j \in valid : IsPrev(i, j)].created_at ELSE NULL_TS,
          rn |-> 1 + Cardinality({j \in valid :
                        /\ raw[j].student_id = raw[i].student_id
                        /\ raw[j].created_at = raw[i].created_at
                        /\ rnOrd[j] < rnOrd[i]})] : i \in valid}

StandardizedGender(gender) ==
    IF gender = NULL THEN "Unknown"
    ELSE IF Lower(gender) \in {"m", "male", "mÃ¢le", "homme"} THEN "Male"
    ELSE IF Lower(gender) \in {"f", "female", "femme"} THEN "Female"
    ELSE IF Lower(gender) \in {"o", "other", "autre"} THEN "Other"
    ELSE "Unknown"

HasDisability(disability_status) ==
    ~(disability_status = NULL \/ Lower(disability_status) \in {"none", "no", "na", ""})

AreaType(upazila) ==
    LET u == Lower(upazila)
    IN  IF Like(u, "sadar") \/ Like(u, "town") \/ Like(u, "city") \/ Like(u, "metro")
        THEN "Urban" ELSE "Rural"

\* the changed_records CTE and the final SELECT; uuid is the outcome of
\* GENERATE_UUID() for the run (age, names split from full_name and the audit
\* columns are left out)
EffectiveToMinusOneSecond(u) ==
    IF u.next_created_at = NULL_TS THEN Sentinel ELSE u.next_created_at - 1

DimStudentRow(u, uuid) ==
    [student_key |-> <<uuid, u.row.student_id, u.row.created_at>>,
     student_id |-> u.row.student_id,
     full_name |-> u.row.full_name,
     gender |-> StandardizedGender(u.row.gender),
     date_of_birth |-> u.row.date_of_birth,
     division |-> u.row.division,
     district |-> u.row.district,
     upazila |-> u.row.upazila,
     area_type |-> AreaType(u.row.upazila),
     socioeconomic_status |-> u.row.socioeconomic_status,
     has_disability |-> HasDisability(u.row.disability_status),
     disability_status |-> u.row.disability_status,
     guardian_contact |-> u.row.guardian_contact,
     is_current |-> (u.next_created_at = NULL_TS),
     effective_from |-> u.row.created_at,
     effective_to |-> EffectiveToMinusOneSecond(u)]

ChangedRecords(updates) ==
    {u \in updates :
        /\ (u.previous_row_hash = NULL \/ u.row_hash # u.previous_row_hash)
        /\ u.rn = 1}

\* the final SELECT over changed_records
DimStudentsTable(changed, uuid) == {DimStudentRow(u, uuid) : u \in changed}

\* a row lands in the raw students table
LandStudent(r) ==
    /\ Len(raw_students) < MaxRaw
    /\ raw_students' = Append(raw_students, r)
    /\ UNCHANGED <<dim_students, dim_students_input, teacherVars, factVars, martVars, dbt_run, gradeVars, now>>

\* dbt run of dim_students: materialized='table', the table is rebuilt whole
BuildDimStudents ==
    /\ LET orders == WindowOrders(raw_students)
       IN  \E lagOrd \in orders, rnOrd \in orders :
              LET changed == ChangedRecords(StudentUpdates(raw_students, lagOrd, rnOrd))
              IN  \E uuid \in 1..MaxUuid :
                     dim_students' = DimStudentsTable(changed, uuid)
    /\ dim_students_input' = raw_students
    /\ UNCHANGED <<raw_students, teacherVars, factVars, martVars, dbt_run, gradeVars, now>>

InitTeachersIdle ==
    /\ stg_teachers = {}
    /\ dim_teachers = EmptyBag
    /\ dim_teachers_exists = FALSE
    /\ dim_teachers_input = {}

InitFactsIdle ==
    /\ stg_events = {}
    /\ fct = {}
    /\ fct_exists = FALSE
    /\ fct_model = "assessment"
    /\ fct_input = {}

InitStudents ==
    /\ raw_students = <<>>
    /\ dim_students = {}
    /\ dim_students_input = <<>>
    /\ InitTeachersIdle
    /\ InitFactsIdle
    /\ InitMartIdle
    /\ InitRunIdle
    /\ InitGradesIdle
    /\ now = T1

NextStudents ==
    \/ \E r \in RawStudentRows : LandStudent(r)
    \/ BuildDimStudents

SpecStudents == InitStudents /\ [][NextStudents]_vars

----------------------------------------------------------------------------
(* dim_teachers *)

TeacherA ==
    [full_name |-> "Rahim Uddin", gender |-> "M", date_of_birth |-> "1980-01-01",
     qualification |-> "BEd", subject_specialization |-> "Math",
     join_date |-> "2010-01-01", is_active |-> "true"]

\* the teacher gained a qualification
TeacherB == [TeacherA EXCEPT !.qualification = "MEd"]

\* the same teacher as TeacherA with the gender already in its standard form
TeacherStd == [TeacherA EXCEPT !.gender = "Male"]

StagedTeacher(id, a, t) ==
    [teacher_id |-> id, full_name |-> a.full_name, gender |-> a.gender,
     date_of_birth |-> a.date_of_birth, qualification |-> a.qualification,
     subject_specialization |-> a.subject_specialization, join_date |-> a.join_date,
     is_active |-> a.is_active, updated_at |-> t]

\* the staged rows stg_teachers can receive
StagedTeacherRows ==
    {StagedTeacher("t1", a, t) : a \in {TeacherA, TeacherB, TeacherStd}, t \in {T1, T2, T3}}
      \cup {StagedTeacher("t2", TeacherStd, T1), StagedTeacher(NULL, TeacherA, T1)}

\* the sum of the copies B holds of the elements of S
RECURSIVE SumCopies(_, _)
SumCopies(S, B) ==
    IF S = {} THEN 0
    ELSE LET e == CHOOSE x \in S : TRUE IN B[e] + SumCopies(S \ {e}, B)

\* the bag holding p.n copies of p.row for every p of S
RECURSIVE BagOf(_)
BagOf(S) ==
    IF S = {} THEN EmptyBag
    ELSE LET p == CHOOSE x \in S : TRUE
         IN  (IF p.n > 0 THEN p.row :> p.n ELSE EmptyBag) (+) BagOf(S \ {p})

\* SELECT MAX(dwh_updated_at) FROM this; NULL over an empty table
MaxDwhUpdatedAt(dim) ==
    IF dim = EmptyBag THEN NULL_TS
    ELSE CHOOSE t \in {d.dwh_updated_at : d \in BagToSet(dim)} :
            \A d \in BagToSet(dim) : d.dwh_updated_at <= t

\* the source CTE
TeacherSource(stg, dim, incremental) ==
    IF incremental
    THEN {r \in stg : MaxDwhUpdatedAt(dim) # NULL_TS /\ r.updated_at > MaxDwhUpdatedAt(dim)}
    ELSE stg

\* the current_records and current_data CTEs: the rows carrying the latest
\* updated_at of their teacher_id (the join on teacher_id drops NULL keys)
CurrentData(source) ==
    {r \in source :
        /\ r.teacher_id # NULL
        /\ \A q \in source : q.teacher_id = r.teacher_id => q.updated_at <= r.updated_at}

\* the existing_dimension CTE
ExistingDimension(dim) == {d \in BagToSet(dim) : d.is_current}

\* a != b in SQL: not true when either side is NULL
SqlNeq(a, b) == a # NULL /\ b # NULL /\ a # b

HasChanges(cd, ed) ==
    \/ SqlNeq(cd.full_name, ed.full_name)
    \/ SqlNeq(cd.gender, ed.gender)
    \/ SqlNeq(cd.date_of_birth, ed.date_of_birth)
    \/ SqlNeq(cd.qualification, ed.qualification)
    \/ SqlNeq(cd.subject_specialization, ed.subject_specialization)
    \/ SqlNeq(cd.is_active, ed.is_active)

TeacherGender(gender) ==
    IF gender = NULL THEN "Unknown"
    ELSE IF Lower(gender) \in {"m", "male", "mâle", "männlich", "man", "homme"} THEN "Male"
    ELSE IF Lower(gender) \in {"f", "female", "femme", "weiblich", "woman", "frau"}
         THEN "Female"
    ELSE IF Lower(gender) \in {"o", "other", "autre", "andere", "non-binary", "nonbinary"}
         THEN "Other"
    ELSE IF gender \in {"", " ", "  "} THEN "Unknown"
    ELSE "Other"

TeacherKey(teacher_id, updated_at) == <<teacher_id, updated_at>>

\* the dim_teachers CTE: one output row of the run at time t (age, experience,
\* the split names and the contact columns are left out)
DimTeacherRow(cd, t) ==
    [teacher_key |-> TeacherKey(cd.teacher_id, cd.updated_at),
     teacher_id |-> cd.teacher_id,
     full_name |-> cd.full_name,
     gender |-> TeacherGender(cd.gender),
     date_of_birth |-> cd.date_of_birth,
     qualification |-> cd.qualification,
     subject_specialization |-> cd.subject_specialization,
     join_date |-> cd.join_date,
     is_active |-> cd.is_active,
     is_current |-> TRUE,
     effective_from |-> t,
     effective_to |-> Sentinel,
     dwh_created_at |-> t,
     dwh_updated_at |-> t]

\* the changed_records CTE and the final SELECT: the bag of rows the run at
\* time t selects.  The LEFT JOIN yields one row per current row of the
\* teacher, or one row when there is none.
SelectedTeachers(stg, dim, incremental, t) ==
    LET existing == ExistingDimension(dim)
        matches(cd) == {ed \in existing : ed.teacher_id = cd.teacher_id}
        copies(cd) ==
            IF matches(cd) = {} THEN 1
            ELSE SumCopies({ed \in matches(cd) : HasChanges(cd, ed)}, dim)
    IN  BagOf({[from |-> cd, row |-> DimTeacherRow(cd, t), n |-> copies(cd)] :
                 cd \in CurrentData(TeacherSource(stg, dim, incremental))})

\* the merge on unique_key = teacher_key fails when one target row matches
\* several source rows
MergeFails(dim, selected) ==
    \E d \in BagToSet(dim) :
        SumCopies({r \in BagToSet(selected) : r.teacher_key = d.teacher_key}, selected) > 1

\* incremental_strategy = 'merge': a matched target row takes the source
\* row's columns except dwh_created_at; unmatched source rows are inserted
MergeTeachers(dim, selected) ==
    LET src == BagToSet(selected)
        match(d) == {r \in src : r.teacher_key = d.teacher_key}
        kept == {[from |-> d, row |-> d, n |-> dim[d]] :
                    d \in {x \in BagToSet(dim) : match(x) = {}}}
        updated == {[from |-> d,
                     row |-> [(CHOOSE r \in match(d) : TRUE)
                                 EXCEPT !.dwh_created_at = d.dwh_created_at],
                     n |-> dim[d]] :
                       d \in {x \in BagToSet(dim) : match(x) # {}}}
        inserted == {[from |-> r, row |-> r, n |-> selected[r]] :
                        r \in {x \in src : \A d \in BagToSet(dim) :
                                               d.teacher_key # x.teacher_key}}
    IN  BagOf(kept) (+) BagOf(updated) (+) BagOf(inserted)

\* a row lands in stg_teachers, stamped no later than the present
LandTeacher(r) ==
    /\ Cardinality(stg_teachers) < MaxStaged
    /\ r \notin stg_teachers
    /\ r.updated_at <= now
    /\ stg_teachers' = stg_teachers \cup {r}
    /\ UNCHANGED <<dim_teachers, dim_teachers_exists, dim_teachers_input,
                   studentVars, factVars, martVars, dbt_run, gradeVars, now>>

\* time passes
Tick(t) ==
    /\ t > now
    /\ now' = t
    /\ UNCHANGED <<studentVars, teacherVars, factVars, martVars, dbt_run, gradeVars>>

\* dbt run of dim_teachers.  The first run creates the table from the
\* selected rows (the existing dimension is taken to be empty then); later
\* runs are incremental and merge the selected rows into the table.
RunDimTeachers ==
    /\ LET selected == SelectedTeachers(stg_teachers, dim_teachers, dim_teachers_exists, now)
       IN  dim_teachers' =
               IF ~dim_teachers_exists THEN selected
               ELSE IF MergeFails(dim_teachers, selected) THEN dim_teachers
               ELSE MergeTeachers(dim_teachers, selected)
    /\ BagCardinality(dim_teachers') <= MaxDimRows
    /\ dim_teachers_exists' = TRUE
    /\ dim_teachers_input' = stg_teachers
    /\ UNCHANGED <<stg_teachers, studentVars, factVars, martVars, dbt_run, gradeVars, now>>

\* dbt run --full-refresh of dim_teachers: is_incremental() is false, the
\* query still reads the current rows of the table it replaces
FullRefreshDimTeachers ==
    /\ dim_teachers_exists
    /\ dim_teachers' = SelectedTeachers(stg_teachers, dim_teachers, FALSE, now)
    /\ BagCardinality(dim_teachers') <= MaxDimRows
    /\ dim_teachers_input' = stg_teachers
    /\ UNCHANGED <<stg_teachers, dim_teachers_exists, studentVars, factVars, martVars, dbt_run, gradeVars, now>>

InitStudentsIdle ==
    /\ raw_students = <<>>
    /\ dim_students = {}
    /\ dim_students_input = <<>>

InitTeachers ==
    /\ stg_teachers = {}
    /\ dim_teachers = EmptyBag
    /\ dim_teachers_exists = FALSE
    /\ dim_teachers_input = {}
    /\ InitStudentsIdle
    /\ InitFactsIdle
    /\ InitMartIdle
    /\ InitRunIdle
    /\ InitGradesIdle
    /\ now = T1

NextTeachers ==
    \/ \E r \in StagedTeacherRows : LandTeacher(r)
    \/ \E t \in {T2, T3} : Tick(t)
    \/ RunDimTeachers
    \/ FullRefreshDimTeachers

SpecTeachers == InitTeachers /\ [][NextTeachers]_vars

----------------------------------------------------------------------------
(* The fact models fct_assessment_results, fct_attendances and fct_enrollments.
   The three share their shape; a staged row is written with the columns
     event_id    assessment_result_id / attendance_id / enrollment_id
     event_date  assessment_date / attendance_date / created_at
     updated_at  recorded_at / recorded_at / updated_at
   and enrollment_year, which only fct_enrollments reads. *)

FactModels == {"assessment", "attendance", "enrollment"}

StagedEvent(id, sid, date, ts) ==
    [event_id |-> id, student_id |-> sid, event_date |-> date, updated_at |-> ts,
     enrollment_year |-> IF date = NULL_TS THEN NULL ELSE "y"]

\* the staged rows the feeds can deliver: events of the year before last,
\* one of them corrected and one recorded late, an event of this month with
\* two later versions, and rows with a null key, an unknown student, no date
StagedEventRows ==
    {StagedEvent("e1", "s1", TS(0, 11, 5, 0), TS(0, 11, 5, 3600)),
     StagedEvent("e1", "s1", TS(0, 10, 5, 0), TS(2, 1, 3, 0)),
     StagedEvent("e2", "s1", TS(0, 11, 20, 0), TS(2, 1, 2, 0)),
     StagedEvent("e3", "s1", TS(2, 1, 5, 0), TS(2, 1, 5, 3600)),
     StagedEvent("e3", "s1", TS(2, 1, 5, 0), TS(2, 1, 8, 0)),
     StagedEvent("e3", "s1", TS(2, 2, 2, 0), TS(2, 2, 3, 0)),
     StagedEvent(NULL, "s1", TS(2, 1, 6, 0), TS(2, 1, 6, 3600)),
     StagedEvent("e4", "s9", TS(2, 1, 7, 0), TS(2, 1, 7, 3600)),
     StagedEvent("e5", "s1", NULL_TS, TS(2, 1, 9, 0))}

\* the start of the window of staged rows an incremental run reads
SourceWindowStart(model, t) ==
    IF model = "attendance" THEN DateTrunc(t, Month) - Month
    ELSE DateTrunc(t, Year) - Year

\* the start of the business dates whose target rows the NOT IN filter reads
TargetFilterStart(model, t) ==
    IF model = "attendance" THEN DateTrunc(t, Month)
    ELSE DateTrunc(t - Year, Year)

\* the WHERE clause of the source CTE
FactSource(model, stg, incremental, t) ==
    {e \in stg :
        /\ IF model = "enrollment" THEN e.enrollment_year # NULL
           ELSE e.event_date # NULL_TS
        /\ incremental =>
              \/ e.updated_at >= SourceWindowStart(model, t)
              \/ model = "enrollment" /\ e.event_date >= SourceWindowStart(model, t)}

\* q sorts before e in the ROW_NUMBER window of the source CTE
SortsBefore(model, q, e) ==
    \/ q.updated_at > e.updated_at
    \/ model = "enrollment" /\ q.updated_at = e.updated_at /\ q.event_date > e.event_date

\* the rows of the source that can be given rn = 1
LatestVersions(model, source) ==
    {e \in source :
        \A q \in source : q.event_id = e.event_id => ~SortsBefore(model, q, e)}

\* the student_info CTE joined to a staged row: the current rows of the
\* student, or a row of NULLs when there is none
StudentInfo(dim, sid) ==
    LET current == {d \in dim : d.is_current /\ d.student_id = sid}
    IN  IF current = {}
        THEN {[student_name |-> NULL, student_gender |-> NULL,
               socioeconomic_status |-> NULL, has_disability |-> NULL]}
        ELSE {[student_name |-> d.full_name, student_gender |-> d.gender,
               socioeconomic_status |-> d.socioeconomic_status,
               has_disability |-> d.has_disability] : d \in current}

SurrogateKey(id, ts) == <<id, ts>>

\* one row of the enriched CTE (the teacher, school and subject columns, the
\* measures and the audit columns are left out)
FactRow(e, info) ==
    [fact_key |-> SurrogateKey(e.event_id, e.updated_at),
     event_id |-> e.event_id,
     student_id |-> e.student_id,
     event_date |-> DateTrunc(e.event_date, Day),
     updated_at |-> e.updated_at,
     student_name |-> info.student_name,
     student_gender |-> info.student_gender,
     socioeconomic_status |-> info.socioeconomic_status,
     has_disability |-> info.has_disability]

\* x NOT IN (S) in SQL: not true when x is NULL or S holds a NULL
NotIn(x, S) == S = {} \/ (x # NULL /\ NULL \notin S /\ x \notin S)

\* the ids the incremental filter reads from the target table
TargetIds(model, table, t) ==
    {f.event_id : f \in {g \in table : g.event_date >= TargetFilterStart(model, t)}}

\* the results the model's SELECT can have: one row per event id among the
\* latest versions of the source (ties and the fan-out of the join are
\* resolved by ROW_NUMBER in any order), less the ids the target holds
SelectedFacts(model, stg, dim, table, incremental, t) ==
    LET latest == LatestVersions(model, FactSource(model, stg, incremental, t))
        ids == {e.event_id : e \in {x \in latest :
                    incremental => NotIn(x.event_id, TargetIds(model, table, t))}}
        options(id) ==
            UNION {{FactRow(e, info) : info \in StudentInfo(dim, e.student_id)} :
                      e \in {x \in latest : x.event_id = id}}
    IN  {{pick[id] : id \in ids} :
            pick \in {f \in [ids -> UNION {options(id) : id \in ids}] :
                         \A id \in ids : f[id] \in options(id)}}

Partition(f) == DateTrunc(f.event_date, Month)

\* a strategy that replaces the whole table by the new rows
ReplaceTable(table, new) == new

\* incremental_strategy = 'insert_overwrite' on monthly partitions: every
\* partition the new rows fall in is replaced by the new rows
InsertOverwrite(table, new) ==
    {f \in table : \A g \in new : Partition(g) # Partition(f)} \cup new

\* a row lands in the staging table, stamped no later than the present
LandEvent(e) ==
    /\ Cardinality(stg_events) < MaxEvents
    /\ e \notin stg_events
    /\ e.updated_at <= now
    /\ stg_events' = stg_events \cup {e}
    /\ UNCHANGED <<fct, fct_exists, fct_model, fct_input, studentVars, teacherVars, martVars, dbt_run, gradeVars, now>>

\* dbt run of the fact model: the first run creates the table from the whole
\* selection, later runs are incremental
RunFact ==
    /\ \E new \in SelectedFacts(fct_model, stg_events, dim_students, fct, fct_exists, now) :
          fct' = IF fct_exists THEN InsertOverwrite(fct, new) ELSE new
    /\ fct_exists' = TRUE
    /\ fct_input' = stg_events
    /\ UNCHANGED <<stg_events, fct_model, studentVars, teacherVars, martVars, dbt_run, gradeVars, now>>

\* dbt run --full-refresh of the fact model
FullRefreshFact ==
    /\ fct_exists
    /\ \E new \in SelectedFacts(fct_model, stg_events, dim_students, fct, FALSE, now) :
          fct' = new
    /\ fct_input' = stg_events
    /\ UNCHANGED <<stg_events, fct_exists, fct_model, studentVars, teacherVars, martVars, dbt_run, gradeVars, now>>

\* the student histories the facts are loaded against, committed before the
\* fact loads start
T0 == TS(0, 6, 0, 0)

FactStudentHistories ==
    {<<RawStudent("s1", AttrsA, T0), RawStudent("s1", AttrsB, T2)>>,
     <<RawStudent("s1", AttrsA, T0), RawStudent("s1", AttrsA, T2)>>}

InitFacts ==
    /\ raw_students \in FactStudentHistories
    /\ dim_students =
          DimStudentsTable(ChangedRecords(StudentUpdates(raw_students, <<1, 2>>, <<1, 2>>)), 1)
    /\ dim_students_input = raw_students
    /\ InitTeachersIdle
    /\ stg_events = {}
    /\ fct = {}
    /\ fct_exists = FALSE
    /\ fct_model \in FactModels
    /\ fct_input = {}
    /\ InitMartIdle
    /\ InitRunIdle
    /\ InitGradesIdle
    /\ now = TS(2, 1, 10, 0)

NextFacts ==
    \/ \E e \in StagedEventRows : LandEvent(e)
    \/ Tick(TS(2, 2, 10, 0))
    \/ RunFact
    \/ FullRefreshFact

SpecFacts == InitFacts /\ [][NextFacts]_vars

\* the fact loads without full refreshes: every run after the first is
\* incremental
NextIncrementalFacts ==
    \/ \E e \in StagedEventRows : LandEvent(e)
    \/ Tick(TS(2, 2, 10, 0))
    \/ RunFact

SpecIncrementalFacts == InitFacts /\ [][NextIncrementalFacts]_vars

----------------------------------------------------------------------------
(* The equity_metrics mart.  It is modelled from the rows of its
   student_metrics CTE: one row per geography, school and academic context and
   per gender, socioeconomic status and disability flag, with the average
   percentage and the number of students of the row.  The rows of the model lie
   in one school type, education level, academic year and grade, so a group of
   equity_analysis is named by its urban_rural_classification; the surrogate
   key and the attendance rate are left out.  Averages are in thousandths of a
   percentage point and are kept as exact fractions; rounded figures are in
   hundredths. *)

\* the NULL of a rounded figure, and of a fraction
NULL_NUM == -Sentinel
NullQ == [num |-> 0, den |-> 0]

StudentMetric(area, gender, ses, disabled, avg, n) ==
    [urban_rural_classification |-> area, gender |-> gender,
     socioeconomic_status |-> ses, has_disability |-> disabled,
     avg_performance |-> avg, student_count |-> n,
     is_low_income |-> IF ses \in {"Low", "Very Low"} THEN 1 ELSE 0,
     has_disability_flag |-> IF disabled THEN 1 ELSE 0,
     is_rural_area |-> IF area = "Rural" THEN 1 ELSE 0]

StudentMetricRows ==
    {StudentMetric("Urban", "Female", ses, dis, avg, n) :
        ses \in {"Low", "Middle"}, dis \in BOOLEAN, avg \in {72000, 74996}, n \in {3, 5}}
    \cup {StudentMetric("Urban", "Male", ses, dis, avg, n) :
        ses \in {"Low", "Middle"}, dis \in BOOLEAN, avg \in {72000, 80000}, n \in {3, 5}}
    \cup {StudentMetric("Rural", g, "Low", TRUE, 72000, 5) : g \in {"Female", "Male"}}

\* the GROUP BY columns of student_metrics
CellKey(c) ==
    <<c.urban_rural_classification, c.gender, c.socioeconomic_status, c.has_disability>>

RECURSIVE SumCount(_)
SumCount(cells) ==
    IF cells = {} THEN 0
    ELSE LET c == CHOOSE x \in cells : TRUE
         IN  c.student_count + SumCount(cells \ {c})

RECURSIVE SumWeighted(_)
SumWeighted(cells) ==
    IF cells = {} THEN 0
    ELSE LET c == CHOOSE x \in cells : TRUE
         IN  c.avg_performance * c.student_count + SumWeighted(cells \ {c})

RECURSIVE SumAvg(_)
SumAvg(cells) ==
    IF cells = {} THEN 0
    ELSE LET c == CHOOSE x \in cells : TRUE
         IN  c.avg_performance + SumAvg(cells \ {c})

\* a division that reports 0 for an empty subgroup
SafeDivideZero(n, d) == IF d = 0 THEN [num |-> 0, den |-> 1] ELSE [num |-> n, den |-> d]

\* SAFE_DIVIDE(n, NULLIF(d, 0))
SafeDivide(n, d) == IF d = 0 THEN NullQ ELSE [num |-> n, den |-> d]

\* SAFE_DIVIDE(SUM(CASE WHEN .. THEN avg_performance * student_count ELSE 0 END),
\*             NULLIF(SUM(CASE WHEN .. THEN student_count ELSE 0 END), 0))
SubgroupAvg(cells) == SafeDivide(SumWeighted(cells), SumCount(cells))

\* one row of equity_analysis
EquityAnalysis(metrics, area) ==
    LET cells == {c \in metrics : c.urban_rural_classification = area}
        Sub(column, value) == {c \in cells : c[column] = value}
    IN  [urban_rural_classification |-> area,
         total_students |-> SumCount(cells),
         overall_avg_performance |-> SafeDivide(SumAvg(cells), Cardinality(cells)),
         female_avg_performance |-> SubgroupAvg(Sub("gender", "Female")),
         male_avg_performance |-> SubgroupAvg(Sub("gender", "Male")),
         low_income_avg_performance |-> SubgroupAvg(Sub("is_low_income", 1)),
         non_low_income_avg_performance |-> SubgroupAvg(Sub("is_low_income", 0)),
         with_disability_avg_performance |-> SubgroupAvg(Sub("has_disability_flag", 1)),
         without_disability_avg_performance |-> SubgroupAvg(Sub("has_disability_flag", 0)),
         rural_avg_performance |-> SubgroupAvg(Sub("is_rural_area", 1)),
         urban_avg_performance |-> SubgroupAvg(Sub("is_rural_area", 0)),
         female_count |-> SumCount(Sub("gender", "Female")),
         male_count |-> SumCount(Sub("gender", "Male")),
         low_income_count |-> SumCount(Sub("is_low_income", 1)),
         with_disability_count |-> SumCount(Sub("has_disability_flag", 1)),
         rural_count |-> SumCount(Sub("is_rural_area", 1))]

\* ROUND(q, 2), half away from zero; NULL for NULL
Round2(q) ==
    IF q.den = 0 THEN NULL_NUM
    ELSE LET a == IF q.num < 0 THEN -q.num ELSE q.num
             r == (a + 5 * q.den) \div (10 * q.den)
         IN  IF q.num < 0 THEN -r ELSE r

\* p - q; NULL when either is NULL
Minus(p, q) ==
    IF p.den = 0 \/ q.den = 0 THEN NullQ
    ELSE [num |-> p.num * q.den - q.num * p.den, den |-> p.den * q.den]

\* CASE WHEN ABS(d) <= 5 THEN 1 ELSE 0 END
Equitable(d) ==
    IF d.den # 0 /\ (IF d.num < 0 THEN -d.num ELSE d.num) <= 5000 * d.den THEN 1 ELSE 0

\* the final SELECT list
EquityRow(a) ==
    [urban_rural_classification |-> a.urban_rural_classification,
     total_students |-> a.total_students,
     overall_avg_performance |-> Round2(a.overall_avg_performance),
     female_avg_performance |-> Round2(a.female_avg_performance),
     male_avg_performance |-> Round2(a.male_avg_performance),
     gender_gap |-> Round2(Minus(a.male_avg_performance, a.female_avg_performance)),
     low_income_avg_performance |-> Round2(a.low_income_avg_performance),
     non_low_income_avg_performance |-> Round2(a.non_low_income_avg_performance),
     income_gap |->
         Round2(Minus(a.non_low_income_avg_performance, a.low_income_avg_performance)),
     with_disability_avg_performance |-> Round2(a.with_disability_avg_performance),
     without_disability_avg_performance |-> Round2(a.without_disability_avg_performance),
     disability_gap |->
         Round2(Minus(a.without_disability_avg_performance,
                      a.with_disability_avg_performance)),
     rural_avg_performance |-> Round2(a.rural_avg_performance),
     urban_avg_performance |-> Round2(a.urban_avg_performance),
     urban_rural_gap |-> Round2(Minus(a.urban_avg_performance, a.rural_avg_performance)),
     female_count |-> a.female_count,
     male_count |-> a.male_count,
     low_income_count |-> a.low_income_count,
     with_disability_count |-> a.with_disability_count,
     rural_count |-> a.rural_count,
     is_gender_equitable |->
         Equitable(Minus(a.male_avg_performance, a.female_avg_performance)),
     is_income_equitable |->
         Equitable(Minus(a.non_low_income_avg_performance, a.low_income_avg_performance)),
     is_disability_equitable |->
         Equitable(Minus(a.without_disability_avg_performance,
                         a.with_disability_avg_performance)),
     is_location_equitable |->
         Equitable(Minus(a.urban_avg_performance, a.rural_avg_performance))]

\* the WHERE clause of the final SELECT
SufficientData(a) ==
    /\ a.total_students >= 10
    /\ a.female_count >= 5
    /\ a.male_count >= 5
    /\ a.low_income_count >= 5
    /\ a.with_disability_count >= 3
    /\ (a.rural_count >= 5 \/ a.rural_count = 0)

EquityMetricsTable(metrics) ==
    {EquityRow(a) :
        a \in {x \in {EquityAnalysis(metrics, c.urban_rural_classification) : c \in metrics} :
                  SufficientData(x)}}

\* a row of student_metrics comes into being (new facts in a new cell)
LandStudentMetric(c) ==
    /\ Cardinality(student_metrics) < MaxCells
    /\ \A x \in student_metrics : CellKey(x) # CellKey(c)
    /\ student_metrics' = student_metrics \cup {c}
    /\ UNCHANGED <<equity_metrics, equity_metrics_input, exam_rows, studentVars,
                   teacherVars, factVars, dbt_run, gradeVars, now>>

\* dbt run of equity_metrics: materialized='table', the table is rebuilt whole
BuildEquityMetrics ==
    /\ equity_metrics' = EquityMetricsTable(student_metrics)
    /\ equity_metrics_input' = student_metrics
    /\ UNCHANGED <<student_metrics, exam_rows, studentVars, teacherVars, factVars, dbt_run,
                   gradeVars, now>>

InitMart ==
    /\ InitMartIdle
    /\ InitStudentsIdle
    /\ InitTeachersIdle
    /\ InitFactsIdle
    /\ InitRunIdle
    /\ InitGradesIdle
    /\ now = T1

NextMart ==
    \/ \E c \in StudentMetricRows : LandStudentMetric(c)
    \/ BuildEquityMetrics

SpecMart == InitMart /\ [][NextMart]_vars

----------------------------------------------------------------------------
(* Properties of dim_students *)

\* dim_students is the build of the raw rows as they are now
StudentsFresh == dim_students_input = raw_students

StudentIds(raw) == {raw[i].student_id : i \in 1..Len(raw)} \ {NULL}

VersionsOf(sid) == {d \in dim_students : d.student_id = sid}

IsLastVersion(d) ==
    \A e \in VersionsOf(d.student_id) : e.effective_from <= d.effective_from

\* e is the version emitted next after d for the same student
IsNextVersion(d, e) ==
    /\ e.student_id = d.student_id
    /\ d.effective_from < e.effective_from
    /\ \A x \in VersionsOf(d.student_id) :
          d.effective_from < x.effective_from => e.effective_from <= x.effective_from

FirstSeen(raw, sid) ==
    CHOOSE t \in {raw[i].created_at : i \in {j \in 1..Len(raw) : raw[j].student_id = sid}} :
        \A i \in 1..Len(raw) : raw[i].student_id = sid => t <= raw[i].created_at

\* an interval ending at `to` meets one starting at `from`: half-open, or
\* closed to the second
Meets(to, from) == to = from \/ to + 1 = from

\* no two raw rows of one student carry the same update timestamp
TieFree(raw) ==
    \A i, j \in 1..Len(raw) :
        (raw[i].student_id = raw[j].student_id /\ raw[i].created_at = raw[j].created_at)
           => i = j

\* C1: for every student_id of the raw history the emitted rows partition time
\* from the first-seen timestamp to the sentinel: the first row starts at the
\* first-seen timestamp, each non-last row's effective_to meets the next
\* emitted row's effective_from, and the last row is open-ended.  (Stated for
\* histories whose versions carry distinct update timestamps.)
C1_IntervalsPartitionTime ==
    (StudentsFresh /\ TieFree(raw_students)) =>
        \A sid \in StudentIds(raw_students) :
            /\ \E d \in VersionsOf(sid) : d.effective_from = FirstSeen(raw_students, sid)
            /\ \A d \in VersionsOf(sid) :
                  /\ IsLastVersion(d) => d.effective_to = Sentinel
                  /\ \A e \in VersionsOf(sid) :
                        IsNextVersion(d, e) => Meets(d.effective_to, e.effective_from)

\* C2: every student_id with a non-null-key raw row has exactly one row with
\* is_current = TRUE, and that row is the last emitted version.  (Stated for
\* histories whose versions carry distinct update timestamps.)
C2_ExactlyOneCurrentAndLast ==
    (StudentsFresh /\ TieFree(raw_students)) =>
        \A sid \in StudentIds(raw_students) :
            /\ Cardinality({d \in VersionsOf(sid) : d.is_current}) = 1
            /\ \A d \in VersionsOf(sid) : d.is_current => IsLastVersion(d)

\* the dimension row carries the attributes of the raw row
CarriesAttrs(d, r) ==
    /\ <<r.full_name, r.date_of_birth, r.division, r.district, r.upazila,
          r.socioeconomic_status, r.disability_status, r.guardian_contact>>
         = <<d.full_name, d.date_of_birth, d.division, d.district, d.upazila,
             d.socioeconomic_status, d.disability_status, d.guardian_contact>>
    /\ StandardizedGender(r.gender) = d.gender

\* the raw rows a dimension row was emitted from
EmittedFrom(raw, d) ==
    {i \in 1..Len(raw) :
        /\ raw[i].student_id = d.student_id
        /\ raw[i].created_at = d.effective_from
        /\ CarriesAttrs(d, raw[i])}

\* C8: each emitted version's effective_from is its own update timestamp and
\* its effective_to is the update timestamp of the next emitted version of the
\* student, or the sentinel if there is none.  (Stated for histories whose
\* versions carry distinct update timestamps.)
C8_EffectiveDates ==
    TieFree(dim_students_input) =>
    \A d \in dim_students :
        /\ EmittedFrom(dim_students_input, d) # {}
        /\ IsLastVersion(d) => d.effective_to = Sentinel
        /\ \A e \in dim_students : IsNextVersion(d, e) => d.effective_to = e.effective_from

\* the rows the change detection is to emit when the rows come in the order
\* ord: the first of each student and those whose hash differs from the hash
\* of the row before
HashChanged(raw, ord) ==
    {i \in 1..Len(raw) :
        /\ raw[i].student_id # NULL
        /\ \A j \in 1..Len(raw) :
              (/\ raw[j].student_id = raw[i].student_id
               /\ ord[j] < ord[i]
               /\ \A k \in 1..Len(raw) :
                     (raw[k].student_id = raw[i].student_id /\ ord[k] < ord[i])
                        => ord[k] <= ord[j])
                 => RowHash(raw[j]) # RowHash(raw[i])}

LatestRows(raw, sid) ==
    {i \in 1..Len(raw) :
        /\ raw[i].student_id = sid
        /\ \A j \in 1..Len(raw) :
              raw[j].student_id = sid => raw[j].created_at <= raw[i].created_at}

\* C9: a raw row is emitted iff it is the first of its student or its hash
\* differs from that of the preceding version (in some order by update
\* timestamp); no two consecutive emitted versions carry the same tracked
\* attributes; the last emitted version carries the attributes of the
\* student's latest raw row.  (Stated for histories whose versions carry
\* distinct update timestamps.)
C9_EmitOnHashChange ==
    (StudentsFresh /\ TieFree(raw_students)) =>
        /\ \E ord \in WindowOrders(raw_students) :
              /\ \A i \in HashChanged(raw_students, ord) :
                    \E d \in dim_students : i \in EmittedFrom(raw_students, d)
              /\ \A d \in dim_students :
                    EmittedFrom(raw_students, d) \cap HashChanged(raw_students, ord) # {}
        /\ \A d, e \in dim_students :
              IsNextVersion(d, e) =>
                  \A i \in EmittedFrom(raw_students, d), j \in EmittedFrom(raw_students, e) :
                      TrackedAttrs(raw_students[i]) # TrackedAttrs(raw_students[j])
        /\ \A d \in dim_students :
              IsLastVersion(d) =>
                  \E i \in LatestRows(raw_students, d.student_id) :
                      CarriesAttrs(d, raw_students[i])

----------------------------------------------------------------------------
(* Properties of dim_teachers *)

TeacherIds(dim) == {d.teacher_id : d \in BagToSet(dim)}

\* the number of rows of the table that are current for the teacher
CurrentRows(dim, tid) ==
    SumCopies({d \in BagToSet(dim) : d.teacher_id = tid /\ d.is_current}, dim)

OneCurrentPerTeacher(dim) == \A tid \in TeacherIds(dim) : CurrentRows(dim, tid) = 1

\* the step is an incremental run of dim_teachers that changes the table
IncrementalTeacherRun ==
    /\ dim_teachers_exists
    /\ dim_teachers' # dim_teachers
    /\ stg_teachers' = stg_teachers
    /\ LET selected == SelectedTeachers(stg_teachers, dim_teachers, TRUE, now)
       IN  /\ ~MergeFails(dim_teachers, selected)
           /\ dim_teachers' = MergeTeachers(dim_teachers, selected)

\* C7: an incremental run that detects a changed teacher closes the row that
\* was current for the teacher (is_current = FALSE, effective_to finite) and
\* opens one current row, so every teacher_id keeps exactly one current row.
C7_IncrementalRunClosesCurrentRow ==
    [][(OneCurrentPerTeacher(dim_teachers) /\ IncrementalTeacherRun)
          => OneCurrentPerTeacher(dim_teachers')]_vars

TeacherPairs(dim) == {<<d.teacher_id, d.effective_from>> : d \in BagToSet(dim)}

\* C10: building the dimension again from the staged input of the previous
\* build, whenever that happens, leaves the set of (business_key,
\* effective_from) pairs as the previous build produced it.
C10_RebuildKeepsPairs ==
    [][(/\ dim_teachers_exists
        /\ dim_teachers_input = stg_teachers
        /\ stg_teachers' = stg_teachers)
          => TeacherPairs(dim_teachers') = TeacherPairs(dim_teachers)]_vars

----------------------------------------------------------------------------
(* Properties of the fact tables *)

\* the versions of the fact's student whose validity interval holds the
\* fact's business date
VersionsAt(f) ==
    {d \in dim_students :
        /\ d.student_id = f.student_id
        /\ d.effective_from <= f.event_date
        /\ f.event_date < d.effective_to}

\* C3: every fact row carries the student attributes of the dim_students
\* version whose validity interval contains the fact's business date.
C3_PointInTimeAttributes ==
    \A f \in fct : \A d \in VersionsAt(f) :
        /\ f.student_name = d.full_name
        /\ f.student_gender = d.gender
        /\ f.socioeconomic_status = d.socioeconomic_status
        /\ f.has_disability = d.has_disability

\* C4: after any sequence of full and incremental loads the fact table holds
\* at most one row per event id.
C4_OneRowPerEvent ==
    \A f, g \in fct : (f.event_id # NULL /\ f.event_id = g.event_id) => f = g

\* an incremental run of the fact model on the staging table as it stands
IncrementalFactRun ==
    /\ fct_exists
    /\ \E new \in SelectedFacts(fct_model, stg_events, dim_students, fct, TRUE, now) :
          fct' = InsertOverwrite(fct, new)
    /\ fct_input' = stg_events
    /\ UNCHANGED <<stg_events, now>>

\* the staged versions of an event the model reads, and the newest of them
StagedVersions(id) ==
    {e \in FactSource(fct_model, stg_events, FALSE, now) : e.event_id = id}

IsNewest(e) == \A q \in StagedVersions(e.event_id) : q.updated_at <= e.updated_at

\* C5: after an incremental load, the fact row of an event whose newest
\* staged version lies in the window the load reads carries the surrogate key
\* of that newest version.
C5_NewerVersionSupersedes ==
    [][IncrementalFactRun =>
         \A f \in fct' : \A e \in StagedVersions(f.event_id) :
            (IsNewest(e) /\ e.updated_at >= SourceWindowStart(fct_model, now))
               => f.fact_key = SurrogateKey(e.event_id, e.updated_at)]_vars

EventKeys(table) == {<<f.event_id, f.fact_key>> : f \in table}

\* C6: an incremental load of a staging table that the previous load has
\* already read leaves the set of event rows and surrogate keys unchanged.
C6_LoadIsIdempotent ==
    [][(IncrementalFactRun /\ fct_input = stg_events)
         => EventKeys(fct') = EventKeys(fct)]_vars

----------------------------------------------------------------------------
(* Surrogate keys of dim_students *)

\* C11: a rebuild of dim_students from the raw rows the previous build read
\* gives every (student_id, effective_from) version the student_key it had.
C11_StudentKeysDeterministic ==
    [][(dim_students_input = raw_students /\ raw_students' = raw_students)
         => \A d \in dim_students, e \in dim_students' :
               (d.student_id = e.student_id /\ d.effective_from = e.effective_from)
                  => d.student_key = e.student_key]_vars

----------------------------------------------------------------------------
(* Rejections of the fact loads *)

\* C12: no fact row references a student id that has no row in dim_students.
C12_UnresolvedStudentExcluded ==
    \A f \in fct : \E d \in dim_students : d.student_id = f.student_id

\* C13: no row of dim_students, dim_teachers or the fact table has a null
\* business key.
C13_NoNullBusinessKey ==
    /\ \A d \in dim_students : d.student_id # NULL
    /\ \A d \in BagToSet(dim_teachers) : d.teacher_id # NULL
    /\ \A f \in fct : f.event_id # NULL

----------------------------------------------------------------------------
(* Gender normalisation of the two dimensions *)

\* the gender values the feeds can carry
GenderInputs ==
    {NULL, "", " ", "M", "male", "MALE", "f", "Female", "o", "Other",
     "man", "woman", "non-binary", "x", "unknown"}

InitGender ==
    /\ raw_students \in {<<RawStudent("s1", [AttrsA EXCEPT !.gender = g], T1)>> :
                            g \in GenderInputs}
    /\ dim_students = {}
    /\ dim_students_input = <<>>
    /\ stg_teachers \in {{StagedTeacher("t1", [TeacherA EXCEPT !.gender = g], T1)} :
                            g \in GenderInputs}
    /\ dim_teachers = EmptyBag
    /\ dim_teachers_exists = FALSE
    /\ dim_teachers_input = {}
    /\ InitFactsIdle
    /\ InitMartIdle
    /\ InitRunIdle
    /\ InitGradesIdle
    /\ now = T1

NextGender ==
    \/ BuildDimStudents
    \/ RunDimTeachers

SpecGender == InitGender /\ [][NextGender]_vars

Genders == {"Male", "Female", "Other", "Unknown"}

\* the bucket of a gender value given the variants a model recognises
GenderBucket(g, male, female, other) ==
    IF g = NULL THEN "Unknown"
    ELSE IF Lower(g) \in male THEN "Male"
    ELSE IF Lower(g) \in female THEN "Female"
    ELSE IF Lower(g) \in other THEN "Other"
    ELSE "Unknown"

\* C14: both dimensions keep every row whatever its gender value, output a
\* gender among Male, Female, Other and Unknown, and map every value that is
\* not a recognised male, female or other variant to Unknown.
C14_GenderTotalWithUnknown ==
    /\ dim_students_input = raw_students =>
          \A i \in 1..Len(raw_students) :
             \E d \in dim_students :
                /\ d.student_id = raw_students[i].student_id
                /\ d.gender \in Genders
                /\ d.gender = GenderBucket(raw_students[i].gender,
                                           {"m", "male", "mÃ¢le", "homme"},
                                           {"f", "female", "femme"},
                                           {"o", "other", "autre"})
    /\ dim_teachers_input = stg_teachers =>
          \A r \in stg_teachers :
             \E d \in BagToSet(dim_teachers) :
                /\ d.teacher_id = r.teacher_id
                /\ d.gender \in Genders
                /\ d.gender = GenderBucket(r.gender,
                      {"m", "male", "mâle", "männlich", "man", "homme"},
                      {"f", "female", "femme", "weiblich", "woman", "frau"},
                      {"o", "other", "autre", "andere", "non-binary", "nonbinary"})

----------------------------------------------------------------------------
(* Properties of equity_metrics *)

\* a reported gap is the advantaged average less the disadvantaged one, and
\* the flag is 1 exactly when the gap is at most 5 points either way
GapAndFlag(advantaged, disadvantaged, gap, flag) ==
    /\ (advantaged # NULL_NUM /\ disadvantaged # NULL_NUM)
          => gap = advantaged - disadvantaged
    /\ flag = 1 <=> (gap # NULL_NUM /\ gap <= 500 /\ -gap <= 500)

\* C15: in every emitted row each gap is the advantaged subgroup average less
\* the disadvantaged one (male - female, non-low-income - low-income,
\* without-disability - with-disability, urban - rural) and the matching flag
\* is 1 exactly when the absolute gap is at most 5; averages 80 and 72 give a
\* gap of 8 and a flag of 0.
C15_GapsAndFlags ==
    \A r \in equity_metrics :
        /\ GapAndFlag(r.male_avg_performance, r.female_avg_performance,
                      r.gender_gap, r.is_gender_equitable)
        /\ GapAndFlag(r.non_low_income_avg_performance, r.low_income_avg_performance,
                      r.income_gap, r.is_income_equitable)
        /\ GapAndFlag(r.without_disability_avg_performance,
                      r.with_disability_avg_performance,
                      r.disability_gap, r.is_disability_equitable)
        /\ GapAndFlag(r.urban_avg_performance, r.rural_avg_performance,
                      r.urban_rural_gap, r.is_location_equitable)

\* the number of students of a subgroup in the group of an emitted row
SubgroupCount(r, column, value) ==
    SumCount({c \in equity_metrics_input :
                 /\ c.urban_rural_classification = r.urban_rural_classification
                 /\ c[column] = value})

\* a reported average rests on at least min students
Guarded(average, count, min) == average # NULL_NUM => count >= min

\* C16: whenever an emitted row carries an average for a subgroup, the
\* subgroup has at least its minimum count of students: 5 for the gender,
\* income and location subgroups, 3 for the disability subgroups.
C16_MinimumCountGuard ==
    \A r \in equity_metrics :
        /\ Guarded(r.female_avg_performance, SubgroupCount(r, "gender", "Female"), 5)
        /\ Guarded(r.male_avg_performance, SubgroupCount(r, "gender", "Male"), 5)
        /\ Guarded(r.low_income_avg_performance, SubgroupCount(r, "is_low_income", 1), 5)
        /\ Guarded(r.non_low_income_avg_performance,
                   SubgroupCount(r, "is_low_income", 0), 5)
        /\ Guarded(r.with_disability_avg_performance,
                   SubgroupCount(r, "has_disability_flag", 1), 3)
        /\ Guarded(r.without_disability_avg_performance,
                   SubgroupCount(r, "has_disability_flag", 0), 3)
        /\ Guarded(r.rural_avg_performance, SubgroupCount(r, "is_rural_area", 1), 5)
        /\ Guarded(r.urban_avg_performance, SubgroupCount(r, "is_rural_area", 0), 5)

\* the groups of the rows the last build read, and their student totals
InputGroups == {c.urban_rural_classification : c \in equity_metrics_input}

GroupTotal(area) ==
    SumCount({c \in equity_metrics_input : c.urban_rural_classification = area})

FemaleCount(area) ==
    SumCount({c \in equity_metrics_input :
                 c.urban_rural_classification = area /\ c.gender = "Female"})

\* C17: a group whose female students are fewer than the minimum of 5 (3,
\* say) and whose total student count meets the overall threshold of 10 has a
\* row with its overall average, and that row carries no gender-gap figures.
C17_SuppressionPerSubgroup ==
    \A area \in InputGroups :
        (GroupTotal(area) >= 10 /\ FemaleCount(area) \in 1..4) =>
            \E r \in equity_metrics :
                /\ r.urban_rural_classification = area
                /\ r.overall_avg_performance # NULL_NUM
                /\ r.female_avg_performance = NULL_NUM
                /\ r.gender_gap = NULL_NUM

\* a subgroup without students has no average, and no gap either
Missing(count, average, gap) == count = 0 => (average = NULL_NUM /\ gap = NULL_NUM)

\* C18: in every emitted row a subgroup with zero students in the group has a
\* NULL average, never 0, and every gap computed from that average is NULL.
C18_EmptySubgroupIsMissing ==
    \A r \in equity_metrics :
        /\ Missing(SubgroupCount(r, "gender", "Female"),
                   r.female_avg_performance, r.gender_gap)
        /\ Missing(SubgroupCount(r, "gender", "Male"),
                   r.male_avg_performance, r.gender_gap)
        /\ Missing(SubgroupCount(r, "is_low_income", 1),
                   r.low_income_avg_performance, r.income_gap)
        /\ Missing(SubgroupCount(r, "is_low_income", 0),
                   r.non_low_income_avg_performance, r.income_gap)
        /\ Missing(SubgroupCount(r, "has_disability_flag", 1),
                   r.with_disability_avg_performance, r.disability_gap)
        /\ Missing(SubgroupCount(r, "has_disability_flag", 0),
                   r.without_disability_avg_performance, r.disability_gap)
        /\ Missing(SubgroupCount(r, "is_rural_area", 1),
                   r.rural_avg_performance, r.urban_rural_gap)
        /\ Missing(SubgroupCount(r, "is_rural_area", 0),
                   r.urban_avg_performance, r.urban_rural_gap)

\* C18 witness: an emitted row of a group without non-low-income students,
\* whose low-income average is reported
C18_Witness ==
    \E r \in equity_metrics :
        /\ SubgroupCount(r, "is_low_income", 0) = 0
        /\ r.non_low_income_avg_performance = NULL_NUM
        /\ r.income_gap = NULL_NUM
        /\ r.low_income_avg_performance # NULL_NUM

----------------------------------------------------------------------------
(* Partitions of the fact tables *)

Partitions(rows) == {Partition(f) : f \in rows}

\* C19: an incremental run leaves every monthly partition that receives none
\* of the run's selected rows with the content it had before the run.
C19_UntouchedPartitionsKept ==
    [][(fct_exists /\ stg_events' = stg_events /\ now' = now) =>
         \E new \in SelectedFacts(fct_model, stg_events, dim_students, fct, TRUE, now) :
            /\ new \subseteq fct'
            /\ \A f \in fct \cup fct' :
                  Partition(f) \notin Partitions(new) => (f \in fct <=> f \in fct')]_vars

\* C19 witness: an earlier version of an event is still in its partition
\* after an incremental run has loaded a later version into another partition
C19_Witness ==
    /\ fct_input = stg_events
    /\ \E f, g \in fct :
          /\ f.event_id = g.event_id
          /\ f.updated_at < g.updated_at
          /\ Partition(f) # Partition(g)

\* ---------------------------------------------------------------------------
\* The run of one load window: the order of the models
\* ---------------------------------------------------------------------------

\* the load windows the model runs
MaxWindows == 2

\* a model declares no upstream model: every table is read as a plain source
RefsNone(m) == {}

\* the models a model reads through ref(): the edges of the run's graph
Refs(m) ==
    CASE m = "fct_assessment_results" -> {"dim_students", "dim_teachers", "dim_schools"}
      [] m = "fct_attendances" -> {"dim_students", "dim_schools"}
      [] m = "fct_enrollments" -> {"dim_students", "dim_schools"}
      [] m = "equity_metrics" -> {"fct_assessment_results", "dim_students",
                                  "dim_schools", "fct_attendances"}
      [] OTHER -> {}

\* a model starts once every model it refers to has committed in this window;
\* its query reads the tables as they are committed at that moment
StartModel(m) ==
    /\ dbt_run.status[m] = "pending"
    /\ \A r \in Refs(m) : dbt_run.status[r] = "committed"
    /\ dbt_run' = [dbt_run EXCEPT !.status[m] = "running",
                                  !.read[m] = dbt_run.version]
    /\ UNCHANGED <<studentVars, teacherVars, factVars, martVars, gradeVars, now>>

\* the model's table is written: it now holds the state of this window
CommitModel(m) ==
    /\ dbt_run.status[m] = "running"
    /\ dbt_run' = [dbt_run EXCEPT !.status[m] = "committed",
                                  !.version[m] = dbt_run.window]
    /\ UNCHANGED <<studentVars, teacherVars, factVars, martVars, gradeVars, now>>

\* the model's query fails: its table keeps the state it had, and the models
\* that refer to it are skipped in this window
FailModel(m) ==
    /\ dbt_run.status[m] = "running"
    /\ dbt_run' = [dbt_run EXCEPT !.status[m] = "error"]
    /\ UNCHANGED <<studentVars, teacherVars, factVars, martVars, gradeVars, now>>

\* the run is over (no model runs, none can start): the next window's run
NextWindow ==
    /\ dbt_run.window < MaxWindows
    /\ \A m \in DbtModels :
          /\ dbt_run.status[m] # "running"
          /\ dbt_run.status[m] = "pending" =>
                \E r \in Refs(m) : dbt_run.status[r] # "committed"
    /\ dbt_run' = [dbt_run EXCEPT !.window = dbt_run.window + 1,
                                  !.status = [m \in DbtModels |-> "pending"],
                                  !.read = [m \in DbtModels |->
                                               [r \in DbtModels |-> 0]]]
    /\ UNCHANGED <<studentVars, teacherVars, factVars, martVars, gradeVars, now>>

InitRun ==
    /\ InitStudentsIdle
    /\ InitTeachersIdle
    /\ InitFactsIdle
    /\ InitMartIdle
    /\ InitRunIdle
    /\ InitGradesIdle
    /\ now = TS(2, 1, 10, 0)

NextRun ==
    \/ \E m \in DbtModels : StartModel(m)
    \/ \E m \in DbtModels : CommitModel(m)
    \/ \E m \in DbtModels : FailModel(m)
    \/ NextWindow

SpecRun == InitRun /\ [][NextRun]_vars

Started(m) == dbt_run.status[m] \in {"running", "committed", "error"}

ReadThisWindow(m, r) == dbt_run.read[m][r] = dbt_run.window

\* C21: within one load window no fact model has started before each of the
\* dimension models dim_students, dim_teachers, dim_schools that it reads has
\* committed in that window, and the mart has not started before the fact
\* tables it reads have committed in that window: a started model has read, of
\* every such table, the state committed for the current window.
C21_StagesInDependencyOrder ==
    /\ Started("fct_assessment_results") =>
          /\ ReadThisWindow("fct_assessment_results", "dim_students")
          /\ ReadThisWindow("fct_assessment_results", "dim_teachers")
          /\ ReadThisWindow("fct_assessment_results", "dim_schools")
    /\ Started("fct_attendances") =>
          /\ ReadThisWindow("fct_attendances", "dim_students")
          /\ ReadThisWindow("fct_attendances", "dim_schools")
    /\ Started("fct_enrollments") =>
          /\ ReadThisWindow("fct_enrollments", "dim_students")
          /\ ReadThisWindow("fct_enrollments", "dim_schools")
    /\ Started("equity_metrics") =>
          /\ ReadThisWindow("equity_metrics", "fct_assessment_results")
          /\ ReadThisWindow("equity_metrics", "fct_attendances")

\* C21 witness: in a later window a fact model runs while the mart still waits,
\* and the fact model has read the dimension states of this window.
C21_Witness ==
    /\ dbt_run.window = 2
    /\ dbt_run.status["fct_assessment_results"] = "running"
    /\ dbt_run.status["equity_metrics"] = "pending"
    /\ ReadThisWindow("fct_assessment_results", "dim_students")
    /\ dbt_run.version["fct_assessment_results"] = 1

\* ---------------------------------------------------------------------------
\* dim_students: raw rows with equal student_id and update timestamp
\* ---------------------------------------------------------------------------

\* the raw rows of one student that carry one update timestamp
TiedRows(raw, sid, t) ==
    {i \in 1..Len(raw) : raw[i].student_id = sid /\ raw[i].created_at = t}

LastInserted(S) == CHOOSE i \in S : \A j \in S : j <= i

\* C22: when the raw history holds several rows with the same student_id and
\* update timestamp, the built dimension keeps exactly one row for that
\* (student_id, timestamp) and the kept row carries the attributes of the row
\* inserted last, whatever order the build met the rows in.
C22_TieKeepsLastInserted ==
    StudentsFresh =>
        \A sid \in StudentIds(raw_students) :
            \A t \in {raw_students[i].created_at : i \in 1..Len(raw_students)} :
                Cardinality(TiedRows(raw_students, sid, t)) > 1 =>
                    /\ Cardinality({d \in dim_students :
                                       d.student_id = sid /\ d.effective_from = t}) = 1
                    /\ \A d \in dim_students :
                          (d.student_id = sid /\ d.effective_from = t) =>
                              CarriesAttrs(d, raw_students[LastInserted(
                                              TiedRows(raw_students, sid, t))])

\* ---------------------------------------------------------------------------
\* dim_students: history across builds over a growing raw table
\* ---------------------------------------------------------------------------

StudentPairs(dim) == {<<d.student_id, d.effective_from>> : d \in dim}

\* C23: raw rows are only ever added, and every (student_id, effective_from)
\* pair the dimension holds before a build is still held after it.  (Stated
\* for histories whose versions carry distinct update timestamps.)
C23_HistoryIsInsertOnly ==
    [][(BuildDimStudents /\ TieFree(raw_students))
          => StudentPairs(dim_students) \subseteq StudentPairs(dim_students')]_vars

\* ---------------------------------------------------------------------------
\* dim_teachers: staged versions that land between incremental runs
\* ---------------------------------------------------------------------------

\* rows land and dim_teachers is run incrementally again and again, never
\* with --full-refresh: a run that would change the table is not put off for
\* ever
NextIncrementalTeachers ==
    \/ \E r \in StagedTeacherRows : LandTeacher(r)
    \/ \E t \in {T2, T3} : Tick(t)
    \/ RunDimTeachers

SpecTeachersLive ==
    InitTeachers /\ [][NextIncrementalTeachers]_vars /\ WF_vars(RunDimTeachers)

\* the staged versions of a teacher that carry its latest updated_at
LatestStaged(tid) ==
    {r \in stg_teachers :
        /\ r.teacher_id = tid
        /\ \A q \in stg_teachers : q.teacher_id = tid => q.updated_at <= r.updated_at}

CarriesTeacher(d, r) ==
    /\ d.teacher_id = r.teacher_id
    /\ d.gender = TeacherGender(r.gender)
    /\ <<d.full_name, d.date_of_birth, d.qualification, d.subject_specialization,
         d.join_date, d.is_active>>
         = <<r.full_name, r.date_of_birth, r.qualification, r.subject_specialization,
             r.join_date, r.is_active>>

TeachersUpToDate ==
    \A tid \in {r.teacher_id : r \in stg_teachers} \ {NULL} :
        \E d \in BagToSet(dim_teachers) :
            /\ d.is_current
            /\ \E r \in LatestStaged(tid) : CarriesTeacher(d, r)

\* C24: under repeated incremental runs every staged teacher version is picked
\* up in the end: from some point on each teacher's current row carries the
\* latest staged version of that teacher, also when that version's updated_at
\* is earlier than the load time of the run before it landed.
C24_StagedVersionsPickedUp == <>[]TeachersUpToDate

\* ---------------------------------------------------------------------------
\* Fact loads over an append-only staging table
\* ---------------------------------------------------------------------------

\* C25: an incremental load loses no event: every event that has a row in
\* the fact table before the load has one after it, and every staged event
\* of the load window with an event id and a business date has a row after
\* the load, whatever rows the target already holds.
C25_NoStagedEventLost ==
    [][IncrementalFactRun =>
         /\ \A f \in fct : f.event_id # NULL => \E g \in fct' : g.event_id = f.event_id
         /\ \A e \in FactSource(fct_model, stg_events, TRUE, now) :
               e.event_id # NULL => \E g \in fct' : g.event_id = e.event_id]_vars

\* ---------------------------------------------------------------------------
\* dim_students: what the row hash tells apart
\* ---------------------------------------------------------------------------

\* row j is the version of its student that precedes row i
Precedes(raw, j, i) ==
    /\ raw[j].student_id = raw[i].student_id
    /\ raw[j].created_at < raw[i].created_at
    /\ \A k \in 1..Len(raw) :
          (raw[k].student_id = raw[i].student_id /\ raw[k].created_at < raw[i].created_at)
             => raw[k].created_at <= raw[j].created_at

\* C26: whenever a raw version differs from the preceding version of the
\* student in any tracked attribute (text moved from one field into the next
\* included), the later version is emitted as a dimension row of its own.
\* (Stated for histories whose versions carry distinct update timestamps.)
C26_EveryChangeEmitted ==
    (StudentsFresh /\ TieFree(raw_students)) =>
        \A i, j \in 1..Len(raw_students) :
            (/\ raw_students[i].student_id # NULL
             /\ Precedes(raw_students, j, i)
             /\ TrackedAttrs(raw_students[j]) # TrackedAttrs(raw_students[i]))
               => \E d \in dim_students :
                     /\ d.student_id = raw_students[i].student_id
                     /\ d.effective_from = raw_students[i].created_at

----------------------------------------------------------------------------
(* The derived measures of fct_assessment_results.  percentage is written in
   hundredths of a percent (3300 is 33%), a missing number as NULL_NUM, and a
   quotient as the fraction num / den, the missing quotient as NullQ. *)

\* the staged assessment results the model holds at once
MaxResults == 2

AssessmentResult(marks, max, pct) ==
    [marks_obtained |-> marks, max_marks |-> max, percentage |-> pct]

\* the percentages the feed can deliver: each grade boundary, the value just
\* below it, the ends of the scale, and no percentage
Percentages ==
    {NULL_NUM, 0, 3299, 3300, 3999, 4000, 4999, 5000, 5999, 6000, 6999, 7000,
     7999, 8000, 10000}

\* the marks the feed can deliver, as (marks_obtained, max_marks)
Marks ==
    {<<m, x>> : m \in {NULL_NUM, 0, 1, 45}, x \in {NULL_NUM, 0, 1, 2, 100}}

\* the staged rows stg_assessment_results can receive
AssessmentResultRows ==
    {AssessmentResult(45, 100, p) : p \in Percentages}
      \cup {AssessmentResult(mx[1], mx[2], 4500) : mx \in Marks}

\* a >= k in SQL: not true when a is NULL
SqlGe(a, k) == a # NULL_NUM /\ a >= k

StandardizedGrade(percentage) ==
    IF SqlGe(percentage, 8000) THEN "A+"
    ELSE IF SqlGe(percentage, 7000) THEN "A"
    ELSE IF SqlGe(percentage, 6000) THEN "A-"
    ELSE IF SqlGe(percentage, 5000) THEN "B"
    ELSE IF SqlGe(percentage, 4000) THEN "C"
    ELSE IF SqlGe(percentage, 3300) THEN "D"
    ELSE "F"

PerformanceCategory(percentage) ==
    IF SqlGe(percentage, 8000) THEN "Excellent (80-100%)"
    ELSE IF SqlGe(percentage, 7000) THEN "Very Good (70-79%)"
    ELSE IF SqlGe(percentage, 6000) THEN "Good (60-69%)"
    ELSE IF SqlGe(percentage, 5000) THEN "Satisfactory (50-59%)"
    ELSE IF SqlGe(percentage, 4000) THEN "Adequate (40-49%)"
    ELSE IF SqlGe(percentage, 3300) THEN "Marginal (33-39%)"
    ELSE "Fail (Below 33%)"

\* a pass mark of 40%
IsPassedAtForty(percentage) == IF SqlGe(percentage, 4000) THEN 1 ELSE 0

IsPassedIndicator(percentage) == IF SqlGe(percentage, 3300) THEN 1 ELSE 0

IsGoodPerformance(percentage) == IF SqlGe(percentage, 6000) THEN 1 ELSE 0

\* NULLIF(x, v)
NullIf(x, v) == IF x = v THEN NULL_NUM ELSE x

\* SAFE_DIVIDE(n, d): NULL when an argument is NULL or the divisor is 0
SafeDivideMarks(n, d) ==
    IF n = NULL_NUM \/ d = NULL_NUM \/ d = 0 THEN NullQ ELSE [num |-> n, den |-> d]

\* SAFE_DIVIDE(ar.marks_obtained, NULLIF(ar.max_marks, 0)) * 100
CalculatedPercentage(marks, max) ==
    LET q == SafeDivideMarks(marks, NullIf(max, 0))
    IN  IF q = NullQ THEN NullQ ELSE [num |-> q.num * 100, den |-> q.den]

\* SAFE_DIVIDE(ar.marks_obtained, NULLIF(ar.max_marks, 1))
NormalizedScore(marks, max) == SafeDivideMarks(marks, NullIf(max, 1))

\* the measures and derived metrics of one row of enriched_results
EnrichedResult(ar) ==
    [marks_obtained |-> ar.marks_obtained,
     max_marks |-> ar.max_marks,
     percentage |-> ar.percentage,
     standardized_grade |-> StandardizedGrade(ar.percentage),
     calculated_percentage |-> CalculatedPercentage(ar.marks_obtained, ar.max_marks),
     performance_category |-> PerformanceCategory(ar.percentage),
     is_passed_indicator |-> IsPassedIndicator(ar.percentage),
     is_good_performance |-> IsGoodPerformance(ar.percentage),
     normalized_score |-> NormalizedScore(ar.marks_obtained, ar.max_marks)]

\* a row lands in stg_assessment_results
LandAssessmentResult(ar) ==
    /\ Cardinality(stg_assessment_results) < MaxResults
    /\ ar \notin stg_assessment_results
    /\ stg_assessment_results' = stg_assessment_results \cup {ar}
    /\ UNCHANGED <<enriched_results, studentVars, teacherVars, factVars, martVars,
                   dbt_run, now>>

\* the enriched_results CTE over the staged rows
BuildEnrichedResults ==
    /\ enriched_results' = {EnrichedResult(ar) : ar \in stg_assessment_results}
    /\ UNCHANGED <<stg_assessment_results, studentVars, teacherVars, factVars,
                   martVars, dbt_run, now>>

InitGrades ==
    /\ InitStudentsIdle
    /\ InitTeachersIdle
    /\ InitFactsIdle
    /\ InitMartIdle
    /\ InitRunIdle
    /\ InitGradesIdle
    /\ now = TS(2, 1, 10, 0)

NextGrades ==
    \/ \E ar \in AssessmentResultRows : LandAssessmentResult(ar)
    \/ BuildEnrichedResults

SpecGrades == InitGrades /\ [][NextGrades]_vars

\* C27: in every row the derived grade fields agree, for every percentage and
\* for no percentage: standardized_grade is 'F' exactly when
\* is_passed_indicator is 0 and exactly when performance_category is the Fail
\* band; is_good_performance is 1 exactly when the grade is A+, A or A-; the
\* letters A+, A, A-, B, C, D stand for the bands from 80, 70, 60, 50, 40, 33
\* percent, and performance_category names the same band.
C27_GradeFieldsConsistent ==
    \A r \in enriched_results :
        LET p == r.percentage
            band(lo, hi) == p # NULL_NUM /\ p >= lo /\ p < hi
        IN  /\ r.standardized_grade = "F" <=> r.is_passed_indicator = 0
            /\ r.standardized_grade = "F" <=> r.performance_category = "Fail (Below 33%)"
            /\ r.is_passed_indicator \in {0, 1}
            /\ r.is_good_performance = 1 <=> r.standardized_grade \in {"A+", "A", "A-"}
            /\ r.is_good_performance \in {0, 1}
            /\ r.standardized_grade = "A+" <=> (p # NULL_NUM /\ p >= 8000)
            /\ r.standardized_grade = "A" <=> band(7000, 8000)
            /\ r.standardized_grade = "A-" <=> band(6000, 7000)
            /\ r.standardized_grade = "B" <=> band(5000, 6000)
            /\ r.standardized_grade = "C" <=> band(4000, 5000)
            /\ r.standardized_grade = "D" <=> band(3300, 4000)
            /\ r.standardized_grade = "A+" <=> r.performance_category = "Excellent (80-100%)"
            /\ r.standardized_grade = "A" <=> r.performance_category = "Very Good (70-79%)"
            /\ r.standardized_grade = "A-" <=> r.performance_category = "Good (60-69%)"
            /\ r.standardized_grade = "B" <=> r.performance_category = "Satisfactory (50-59%)"
            /\ r.standardized_grade = "C" <=> r.performance_category = "Adequate (40-49%)"
            /\ r.standardized_grade = "D" <=> r.performance_category = "Marginal (33-39%)"

\* C27 witness: the table holds a row without a percentage, graded 'F' and not
\* passed, next to a row at the pass mark of 33 percent, graded 'D' and passed.
C27_Witness ==
    /\ \E r \in enriched_results :
          /\ r.percentage = NULL_NUM
          /\ r.standardized_grade = "F"
          /\ r.is_passed_indicator = 0
    /\ \E r \in enriched_results :
          /\ r.percentage = 3300
          /\ r.standardized_grade = "D"
          /\ r.is_passed_indicator = 1

\* p = q as quotients, both defined
SameQuotient(p, q) == p.den # 0 /\ q.den # 0 /\ p.num * q.den = q.num * p.den

\* C28: in every row with marks and with max_marks > 0, normalized_score is
\* defined and equals marks_obtained / max_marks, and a hundred times it is
\* calculated_percentage; normalized_score is missing exactly when max_marks
\* is 0 or missing, which is when calculated_percentage is missing.
C28_NormalizedScoreDefined ==
    \A r \in enriched_results :
        r.marks_obtained # NULL_NUM =>
            /\ (r.max_marks # NULL_NUM /\ r.max_marks > 0) =>
                  /\ SameQuotient(r.normalized_score,
                                  [num |-> r.marks_obtained, den |-> r.max_marks])
                  /\ SameQuotient([num |-> r.normalized_score.num * 100,
                                   den |-> r.normalized_score.den],
                                  r.calculated_percentage)
            /\ r.normalized_score = NullQ <=> r.max_marks \in {0, NULL_NUM}
            /\ r.normalized_score = NullQ <=> r.calculated_percentage = NullQ

----------------------------------------------------------------------------
(* equity_metrics from the assessment results: the FROM, JOIN, WHERE and
   GROUP BY of the student_metrics CTE.  All results of the model carry the
   same percentage, so that every AVG is a whole number of thousandths. *)

\* the assessment results that can land on top of the first ten
MaxExams == 3

Females == {"f1", "f2", "f3", "f4", "f5"}
Males == {"m1", "m2", "m3", "m4", "m5"}

StudentVersion(sid, gender, ses, disabled, from, to) ==
    [student_id |-> sid, gender |-> gender, socioeconomic_status |-> ses,
     has_disability |-> disabled, effective_from |-> from, effective_to |-> to]

\* the versions of dim_students the mart joins: five girls of low income,
\* three of them with a disability, and five boys; f1's household income
\* rises at T2, m1 is recorded with a disability from T2, f6 joins at T2
ExamStudents ==
    {StudentVersion("f1", "Female", "Low", TRUE, T0, T2 - 1),
     StudentVersion("f1", "Female", "Middle", TRUE, T2, Sentinel),
     StudentVersion("m1", "Male", "Middle", FALSE, T0, T2 - 1),
     StudentVersion("m1", "Male", "Middle", TRUE, T2, Sentinel),
     StudentVersion("f6", "Female", "Middle", FALSE, T2, Sentinel)}
      \cup {StudentVersion(s, "Female", "Low", s \in {"f2", "f3"}, T0, Sentinel) :
               s \in Females \ {"f1"}}
      \cup {StudentVersion(s, "Male", "Middle", FALSE, T0, Sentinel) : s \in Males \ {"m1"}}

Exam(id, sid, date, type) ==
    [assessment_result_id |-> id, student_id |-> sid, assessment_date |-> date,
     assessment_type |-> type, percentage |-> 72000,
     urban_rural_classification |-> "Urban"]

\* the first exam of the year, sat by the ten students
FirstExams == {Exam(<<s, 1>>, s, T1, "Exam") : s \in Females \cup Males}

\* the results that can land later: second exams of f1, f2 and m1, an exam of
\* the new student f6, a quiz of m2, and an exam of a student dim_students
\* does not know
LaterExams ==
    {Exam(<<"f1", 2>>, "f1", T3, "Exam"), Exam(<<"f2", 2>>, "f2", T3, "Exam"),
     Exam(<<"m1", 2>>, "m1", T3, "Exam"), Exam(<<"f6", 1>>, "f6", T3, "Exam"),
     Exam(<<"m2", 2>>, "m2", T3, "Quiz"), Exam(<<"s9", 1>>, "s9", T3, "Exam")}

\* FROM fct_assessment_results ar JOIN dim_students ds ON ar.student_id =
\* ds.student_id AND ar.assessment_date BETWEEN ds.effective_from AND
\* ds.effective_to WHERE ar.assessment_type = 'Exam'
JoinedExams(exams) ==
    {j \in [ar : {x \in exams : x.assessment_type = "Exam"}, ds : ExamStudents] :
        /\ j.ar.student_id = j.ds.student_id
        /\ j.ar.assessment_date >= j.ds.effective_from
        /\ j.ar.assessment_date <= j.ds.effective_to}

\* the GROUP BY columns of a joined row
JoinedKey(j) ==
    <<j.ar.urban_rural_classification, j.ds.gender, j.ds.socioeconomic_status,
      j.ds.has_disability>>

RECURSIVE SumPercentage(_)
SumPercentage(joined) ==
    IF joined = {} THEN 0
    ELSE LET j == CHOOSE x \in joined : TRUE
         IN  j.ar.percentage + SumPercentage(joined \ {j})

\* the student_metrics CTE: per group AVG(ar.percentage) and
\* COUNT(DISTINCT ar.student_id)
StudentMetricsOf(exams) ==
    LET joined == JoinedExams(exams)
        group(k) == {j \in joined : JoinedKey(j) = k}
    IN  {StudentMetric(k[1], k[2], k[3], k[4],
                       SumPercentage(group(k)) \div Cardinality(group(k)),
                       Cardinality({j.ar.student_id : j \in group(k)})) :
            k \in {JoinedKey(j) : j \in joined}}

\* an assessment result is loaded into the fact table
LandExam(e) ==
    /\ Cardinality(exam_rows \ FirstExams) < MaxExams
    /\ e \notin exam_rows
    /\ exam_rows' = exam_rows \cup {e}
    /\ UNCHANGED <<student_metrics, equity_metrics, equity_metrics_input, studentVars,
                   teacherVars, factVars, dbt_run, gradeVars, now>>

\* dbt run of equity_metrics over the fact table as it stands
BuildEquityFromExams ==
    /\ student_metrics' = StudentMetricsOf(exam_rows)
    /\ equity_metrics' = EquityMetricsTable(student_metrics')
    /\ equity_metrics_input' = student_metrics'
    /\ UNCHANGED <<exam_rows, studentVars, teacherVars, factVars, dbt_run, gradeVars, now>>

InitExams ==
    /\ student_metrics = {}
    /\ equity_metrics = {}
    /\ equity_metrics_input = {}
    /\ exam_rows = FirstExams
    /\ InitStudentsIdle
    /\ InitTeachersIdle
    /\ InitFactsIdle
    /\ InitRunIdle
    /\ InitGradesIdle
    /\ now = TS(2, 1, 10, 0)

NextExams ==
    \/ \E e \in LaterExams : LandExam(e)
    \/ BuildEquityFromExams

SpecExams == InitExams /\ [][NextExams]_vars

\* the students that have an Exam result in the group
ExamStudentsOf(area) ==
    {e.student_id : e \in {x \in exam_rows : /\ x.assessment_type = "Exam"
                                              /\ x.urban_rural_classification = area
                                              /\ \E d \in ExamStudents :
                                                    d.student_id = x.student_id}}

\* C29: in every row of an equity_metrics built from the fact table as it
\* stands, total_students is the number of distinct students with an Exam
\* result in the group, and female_count + male_count does not exceed it: a
\* student whose attributes changed between two exams is counted once.
C29_StudentsCountedOnce ==
    student_metrics = StudentMetricsOf(exam_rows) =>
        \A r \in equity_metrics :
            /\ r.total_students = Cardinality(ExamStudentsOf(r.urban_rural_classification))
            /\ r.female_count + r.male_count <= r.total_students

----------------------------------------------------------------------------
(* equity_metrics: what a flag of 0 tells *)

\* a flag of 0 stands for a measured gap: both averages are reported and the
\* reported gap is one of more than 5 points (5.00 at the least once rounded)
MeasuredGap(advantaged, disadvantaged, gap, flag) ==
    flag = 0 =>
        /\ advantaged # NULL_NUM
        /\ disadvantaged # NULL_NUM
        /\ gap # NULL_NUM
        /\ (gap >= 500 \/ -gap >= 500)

\* C30: in every emitted row a flag of 0 means a measured gap above the
\* threshold: is_location_equitable = 0 implies that the urban and the rural
\* average are both defined and differ by more than 5, and likewise for the
\* gender, income and disability flags; no flag is 0 merely because a
\* subgroup is absent.
C30_FlagZeroMeansMeasuredGap ==
    \A r \in equity_metrics :
        /\ MeasuredGap(r.male_avg_performance, r.female_avg_performance,
                       r.gender_gap, r.is_gender_equitable)
        /\ MeasuredGap(r.non_low_income_avg_performance, r.low_income_avg_performance,
                       r.income_gap, r.is_income_equitable)
        /\ MeasuredGap(r.without_disability_avg_performance,
                       r.with_disability_avg_performance,
                       r.disability_gap, r.is_disability_equitable)
        /\ MeasuredGap(r.urban_avg_performance, r.rural_avg_performance,
                       r.urban_rural_gap, r.is_location_equitable)

====
